---- MODULE Spec2Model ----
(***************************************************************************)
(* FunctionOverlay<is_utf8> of src/Functions/overlay.cpp:                  *)
(*   overlay(input, replace, offset[, length])                             *)
(*   overlayUTF8(input, replace, offset[, length])                         *)
(* executeImpl dispatches one batch to constantConstant, constantVector,   *)
(* vectorConstant or vectorVector<has_three_args, offset_is_const,         *)
(* length_is_const>; each runs one loop iteration per row.                 *)
(*                                                                         *)
(* Int64 and size_t are modelled IntBits wide (two's complement and        *)
(* modulo 2^IntBits), a scaled-down stand-in for the 64-bit types: string  *)
(* sizes stay below 2^(IntBits-1), as they do below 2^63 in the program.   *)
(* A string is a sequence of byte values 0..255.                           *)
(***************************************************************************)
EXTENDS Integers, Sequences, FiniteSets, TLC

VARIABLES
    is_utf8,            \* template parameter of FunctionOverlay
    arguments,          \* the four argument columns handed to executeImpl
    input_rows_count,   \* number of rows of the batch
    pc,                 \* "call", the member function whose loop runs, "done"
    tmpl,               \* template arguments of the running member function
    const_offset,       \* parameter const_offset of the member function
    const_length,       \* parameter const_length of the member function
    i,                  \* loop counter
    offset,             \* local Int64 offset, declared outside the loop
    length,             \* local Int64 length, declared outside the loop
    valid_offset,       \* local size_t valid_offset, declared outside the loop
    valid_length,       \* local size_t valid_length, declared outside the loop
    res_data,           \* ColumnString::Chars of the result
    res_offsets,        \* ColumnString::Offsets of the result
    res_offset          \* write cursor into res_data

vars == <<is_utf8, arguments, input_rows_count, pc, tmpl, const_offset,
          const_length, i, offset, length, valid_offset, valid_length,
          res_data, res_offsets, res_offset>>

---------------------------------------------------------------------------
\* Bounds of the model.

\* width of the modelled Int64 / size_t
IntBits == 8
\* rows of a batch drawn with every combination of argument shapes
MaxRows == 2
\* bytes of an input drawn from every byte string over InputBytes
MaxInputBytes == 3

RECURSIVE Pow2(_)
Pow2(n) == IF n = 0 THEN 1 ELSE 2 * Pow2(n - 1)

Modulus == Pow2(IntBits)
MinInt == 0 - Pow2(IntBits - 1)
MaxInt == Pow2(IntBits - 1) - 1

\* static_cast<size_t>(x), and the wrap-around of size_t arithmetic
ToSize(x) == x % Modulus

\* ColumnConst::getInt / IColumn::getInt: the row's value as Int64. The result
\* type holds MinInt..MaxInt; a value of an unsigned column above MaxInt is
\* converted modulo 2^IntBits.
ToInt64(x) == IF x % Modulus >= Pow2(IntBits - 1) THEN (x % Modulus) - Modulus ELSE x % Modulus

---------------------------------------------------------------------------
\* Columns.

\* ColumnString: the rows' bytes, each followed by a zero byte, and the
\* cumulative end offsets.
RECURSIVE MakeColumn(_)
MakeColumn(strs) ==
    IF strs = <<>> THEN [chars |-> <<>>, offsets |-> <<>>]
    ELSE LET p == MakeColumn(SubSeq(strs, 1, Len(strs) - 1))
             s == strs[Len(strs)]
         IN [chars |-> p.chars \o s \o <<0>>,
             offsets |-> Append(p.offsets, Len(p.chars) + Len(s) + 1)]

\* offsets[k] for a 0-based row k; offsets[-1] is 0 (PaddedPODArray's left pad)
OffsetAt(offsets, k) == IF k < 0 THEN 0 ELSE offsets[k + 1]

\* the bytes [data + input_offset, data + input_offset + input_bytes) of row k:
\*   input_offset = offsets[k - 1], input_bytes = offsets[k] - offsets[k - 1] - 1
RowAt(col, k) ==
    LET input_offset == OffsetAt(col.offsets, k - 1)
        input_bytes == OffsetAt(col.offsets, k) - OffsetAt(col.offsets, k - 1) - 1
    IN SubSeq(col.chars, input_offset + 1, input_offset + input_bytes)

\* column->getInt(k)
getInt(column, k) == ToInt64(column.ints[k + 1])

---------------------------------------------------------------------------
\* UTF-8 helpers (Common/UTF8Helpers.h, GatherUtils/Sources.h).

isContinuationOctet(octet) == octet >= 128 /\ octet < 192

seqLength(first_octet) ==
    IF first_octet < 128 \/ first_octet >= 248 THEN 1
    ELSE IF first_octet < 192 THEN 1
    ELSE IF first_octet < 224 THEN 2
    ELSE IF first_octet < 240 THEN 3
    ELSE 4

\* UTF8::countCodePoints: the bytes that are not continuation octets
RECURSIVE countCodePoints(_)
countCodePoints(data) ==
    IF data = <<>> THEN 0
    ELSE (IF isContinuationOctet(data[1]) THEN 0 ELSE 1) + countCodePoints(Tail(data))

\* UTF8StringSource::skipCodePointsForward(pos, size, end) over the row's
\* bytes; pos is the 0-based byte index, end = Len(data). The result may
\* pass end.
RECURSIVE skipCodePointsForward(_, _, _)
skipCodePointsForward(data, pos, size) ==
    IF size > 0 /\ pos < Len(data)
    THEN skipCodePointsForward(data, pos + seqLength(data[pos + 1]), size - 1)
    ELSE pos

\* UTF8::syncBackward(s, begin)
RECURSIVE syncBackward(_, _)
syncBackward(data, pos) ==
    IF pos > 0 /\ isContinuationOctet(data[pos + 1]) THEN syncBackward(data, pos - 1) ELSE pos

\* UTF8StringSource::skipCodePointsBackward(pos, size, begin); begin = 0
RECURSIVE skipCodePointsBackward(_, _, _)
skipCodePointsBackward(data, pos, size) ==
    IF size = 0 THEN pos
    ELSE IF pos - 1 < 0 THEN pos - 1
    ELSE skipCodePointsBackward(data, syncBackward(data, pos - 1), size - 1)

---------------------------------------------------------------------------
\* FunctionOverlay's private helpers.

\* getValidOffset with a positive offset returned as it is, 1-based
getValidOffset_KeepsOneBased(off, input_size) ==
    IF off > 0
    THEN IF ToSize(off) > ToSize(input_size + 1) THEN input_size ELSE ToSize(off)
    ELSE IF input_size < ToSize(0 - ToSize(off)) THEN 0 ELSE ToSize(input_size + off)

\* getValidOffset without the clamp of an offset past the end
getValidOffset_NoClamp(off, input_size) ==
    IF off > 0
    THEN ToSize(off - 1)
    ELSE IF input_size < ToSize(0 - ToSize(off)) THEN 0 ELSE ToSize(input_size + off)

\* getValidOffset with a non-positive offset counted 1-based from the end
getValidOffset_EndOneBased(off, input_size) ==
    IF off > 0
    THEN IF ToSize(off) > ToSize(input_size + 1) THEN input_size ELSE ToSize(off - 1)
    ELSE IF input_size < ToSize(0 - ToSize(off)) THEN 0 ELSE ToSize(input_size + off + 1)

\* getValidOffset with the negative offset negated as Int64: -offset overflows
\* for the minimum Int64
getValidOffset_SignedNegate(off, input_size) ==
    IF off > 0
    THEN IF ToSize(off) > ToSize(input_size + 1) THEN input_size ELSE ToSize(off - 1)
    ELSE IF input_size < ToInt64(0 - off) THEN 0 ELSE ToSize(input_size + off)

\* input offset is 1-based, maybe negative;
\* output result is 0-based valid offset, within [0, input_size]
getValidOffset(off, input_size) ==
    IF off > 0
    THEN IF ToSize(off) > ToSize(input_size + 1) THEN input_size ELSE ToSize(off - 1)
    ELSE IF input_size < ToSize(0 - ToSize(off)) THEN 0 ELSE ToSize(input_size + off)

\* get character count of a slice [data, data+bytes)
getSliceSize(utf8, data) == IF utf8 THEN countCodePoints(data) ELSE Len(data)

\* size_t suffix_size = prefix_size + valid_length > input_size
\*                          ? 0 : input_size - prefix_size - valid_length;
SuffixSize(prefix_size, vlength, input_size) ==
    IF ToSize(prefix_size + vlength) > input_size THEN 0
    ELSE ToSize(input_size - prefix_size - vlength)

\* RowLength with length 0 taken as "no length"
RowLength_ZeroIsDefault(len, replace_size) == IF len > 0 THEN ToSize(len) ELSE replace_size

\* valid_length = length >= 0 ? length : replace_size;
RowLength(len, replace_size) == IF len >= 0 THEN ToSize(len) ELSE replace_size

\* memcpySmallAllowReadWriteOverflow15(dst, data + from, count): the count
\* bytes read from data + from. The code's reads are all inside the row; a
\* position outside it has no byte of the row and reads as 256.
Read(data, from, count) ==
    [p \in 1..count |-> IF from + p >= 1 /\ from + p <= Len(data) THEN data[from + p] ELSE 256]

\* CopyBytes with the suffix read from input + prefix_size
CopyBytes_SuffixAtPrefix(input, replace, prefix_size, replace_size, suffix_size, vlength) ==
    Read(input, 0, prefix_size)
      \o Read(replace, 0, replace_size)
      \o (IF suffix_size # 0 THEN Read(input, prefix_size, suffix_size) ELSE <<>>)

\* the !is_utf8 branch of the loop body: the bytes written for the row, before
\* the zero terminator
CopyBytes(input, replace, prefix_size, replace_size, suffix_size, vlength) ==
    Read(input, 0, prefix_size)
      \o Read(replace, 0, replace_size)
      \o (IF suffix_size # 0
          THEN Read(input, prefix_size + vlength, suffix_size)
          ELSE <<>>)

\* CopyCodePoints with the suffix read from prefix_end
CopyCodePoints_SuffixAtPrefix(input, replace, prefix_size, suffix_size) ==
    LET input_bytes == Len(input)
        prefix_end == skipCodePointsForward(input, 0, prefix_size)
        prefix_bytes == IF prefix_end > input_bytes THEN input_bytes ELSE prefix_end
        suffix_begin == skipCodePointsBackward(input, input_bytes, suffix_size)
        suffix_bytes == input_bytes - suffix_begin
    IN Read(input, 0, prefix_bytes)
         \o Read(replace, 0, Len(replace))
         \o (IF suffix_bytes # 0 THEN Read(input, prefix_bytes, suffix_bytes) ELSE <<>>)

\* CopyCodePoints with the code-point counts used as byte counts
CopyCodePoints_CountsAsBytes(input, replace, prefix_size, suffix_size) ==
    Read(input, 0, prefix_size)
      \o Read(replace, 0, Len(replace))
      \o (IF suffix_size # 0 THEN Read(input, Len(input) - suffix_size, suffix_size) ELSE <<>>)

\* CopyCodePoints without the clamp of a forward scan that passes input_end
CopyCodePoints_NoClamp(input, replace, prefix_size, suffix_size) ==
    LET input_bytes == Len(input)
        prefix_end == skipCodePointsForward(input, 0, prefix_size)
        prefix_bytes == prefix_end
        suffix_begin == skipCodePointsBackward(input, input_bytes, suffix_size)
        suffix_bytes == input_bytes - suffix_begin
    IN Read(input, 0, prefix_bytes)
         \o Read(replace, 0, Len(replace))
         \o (IF suffix_bytes # 0
             THEN Read(input, suffix_begin, suffix_bytes)
             ELSE <<>>)

\* the is_utf8 branch of the loop body
CopyCodePoints(input, replace, prefix_size, suffix_size) ==
    LET input_bytes == Len(input)
        prefix_end == skipCodePointsForward(input, 0, prefix_size)
        prefix_bytes == IF prefix_end > input_bytes THEN input_bytes ELSE prefix_end
        suffix_begin == skipCodePointsBackward(input, input_bytes, suffix_size)
        suffix_bytes == input_bytes - suffix_begin
    IN Read(input, 0, prefix_bytes)
         \o Read(replace, 0, Len(replace))
         \o (IF suffix_bytes # 0
             THEN Read(input, suffix_begin, suffix_bytes)
             ELSE <<>>)

\* the body of the row loop after the offset and the length are resolved
RowBytes(utf8, input, replace, input_size, replace_size, voffset, vlength) ==
    LET prefix_size == voffset
        suffix_size == SuffixSize(prefix_size, vlength, input_size)
    IN IF ~utf8
       THEN CopyBytes(input, replace, prefix_size, replace_size, suffix_size, vlength)
       ELSE CopyCodePoints(input, replace, prefix_size, suffix_size)

---------------------------------------------------------------------------
\* The member functions. loc holds the locals declared outside the loop
\* (offset, length, valid_offset, valid_length); k is the row.

\* the member function without its first statement: a negative constant
\* length stays in the constant-length instantiation
Instantiate_NoSwitch(t, clen) == t

\* if (!has_three_args && length_is_const && const_length < 0)
\*     return f<true, offset_is_const, false>(..., const_offset, -1, ...);
Instantiate(t, clen) ==
    IF ~t.has_three_args /\ t.length_is_const /\ clen < 0
    THEN [has_three_args |-> TRUE, offset_is_const |-> t.offset_is_const,
          length_is_const |-> FALSE]
    ELSE t

constantConstantEnter(utf8, t, args, coff, clen) ==
    LET input == RowAt(args.input.col, 0)
        replace == RowAt(args.replace.col, 0)
        input_size == getSliceSize(utf8, input)
        replace_size == getSliceSize(utf8, replace)
    IN [offset |-> 0, length |-> 0,
        valid_offset |-> IF t.offset_is_const THEN getValidOffset(coff, input_size) ELSE 0,
        valid_length |-> IF ~t.has_three_args /\ t.length_is_const THEN ToSize(clen)
                         ELSE IF t.has_three_args THEN replace_size ELSE 0]

constantConstantRow(utf8, t, args, coff, loc, k) ==
    LET input == RowAt(args.input.col, 0)
        replace == RowAt(args.replace.col, 0)
        input_size == getSliceSize(utf8, input)
        replace_size == getSliceSize(utf8, replace)
        off == IF ~t.offset_is_const THEN getInt(args.offset, k) ELSE loc.offset
        voff == IF ~t.offset_is_const THEN getValidOffset(off, input_size)
                ELSE loc.valid_offset
        perrow == ~t.has_three_args /\ ~t.length_is_const
        len == IF perrow THEN getInt(args.length, k) ELSE loc.length
        vlen == IF perrow THEN RowLength(len, replace_size) ELSE loc.valid_length
    IN [offset |-> off, length |-> len, valid_offset |-> voff, valid_length |-> vlen,
        bytes |-> RowBytes(utf8, input, replace, input_size, replace_size, voff, vlen)]

vectorConstantEnter(utf8, t, args, coff, clen) ==
    LET replace == RowAt(args.replace.col, 0)
        replace_size == getSliceSize(utf8, replace)
    IN [offset |-> 0, length |-> 0, valid_offset |-> 0,
        valid_length |-> IF ~t.has_three_args /\ t.length_is_const THEN ToSize(clen)
                         ELSE IF t.has_three_args THEN replace_size ELSE 0]

\* vectorConstantRow with a constant offset resolved for the first row only
vectorConstantRow_HoistedOffset(utf8, t, args, coff, loc, k) ==
    LET input == RowAt(args.input.col, k)
        replace == RowAt(args.replace.col, 0)
        input_size == getSliceSize(utf8, input)
        replace_size == getSliceSize(utf8, replace)
        off == IF t.offset_is_const THEN loc.offset ELSE getInt(args.offset, k)
        voff == IF t.offset_is_const
                THEN (IF k = 0 THEN getValidOffset(coff, input_size) ELSE loc.valid_offset)
                ELSE getValidOffset(off, input_size)
        perrow == ~t.has_three_args /\ ~t.length_is_const
        len == IF perrow THEN getInt(args.length, k) ELSE loc.length
        vlen == IF perrow THEN RowLength(len, replace_size) ELSE loc.valid_length
    IN [offset |-> off, length |-> len, valid_offset |-> voff, valid_length |-> vlen,
        bytes |-> RowBytes(utf8, input, replace, input_size, replace_size, voff, vlen)]

vectorConstantRow(utf8, t, args, coff, loc, k) ==
    LET input == RowAt(args.input.col, k)
        replace == RowAt(args.replace.col, 0)
        input_size == getSliceSize(utf8, input)
        replace_size == getSliceSize(utf8, replace)
        off == IF t.offset_is_const THEN loc.offset ELSE getInt(args.offset, k)
        voff == IF t.offset_is_const THEN getValidOffset(coff, input_size)
                ELSE getValidOffset(off, input_size)
        perrow == ~t.has_three_args /\ ~t.length_is_const
        len == IF perrow THEN getInt(args.length, k) ELSE loc.length
        vlen == IF perrow THEN RowLength(len, replace_size) ELSE loc.valid_length
    IN [offset |-> off, length |-> len, valid_offset |-> voff, valid_length |-> vlen,
        bytes |-> RowBytes(utf8, input, replace, input_size, replace_size, voff, vlen)]

constantVectorEnter(utf8, t, args, coff, clen) ==
    LET input == RowAt(args.input.col, 0)
        input_size == getSliceSize(utf8, input)
    IN [offset |-> 0, length |-> 0,
        valid_offset |-> IF t.offset_is_const THEN getValidOffset(coff, input_size) ELSE 0,
        valid_length |-> IF ~t.has_three_args /\ t.length_is_const THEN ToSize(clen) ELSE 0]

\* constantVectorRow where a negative length of the row leaves valid_length
\* as the previous row resolved it
constantVectorRow_StaleLength(utf8, t, args, coff, loc, k) ==
    LET input == RowAt(args.input.col, 0)
        replace == RowAt(args.replace.col, k)
        input_size == getSliceSize(utf8, input)
        replace_size == getSliceSize(utf8, replace)
        off == IF ~t.offset_is_const THEN getInt(args.offset, k) ELSE loc.offset
        voff == IF ~t.offset_is_const THEN getValidOffset(off, input_size)
                ELSE loc.valid_offset
        perrow == ~t.has_three_args /\ ~t.length_is_const
        len == IF perrow THEN getInt(args.length, k) ELSE loc.length
        vlen == IF t.has_three_args THEN replace_size
                ELSE IF ~t.length_is_const
                     THEN (IF len >= 0 THEN ToSize(len) ELSE loc.valid_length)
                ELSE loc.valid_length
    IN [offset |-> off, length |-> len, valid_offset |-> voff, valid_length |-> vlen,
        bytes |-> RowBytes(utf8, input, replace, input_size, replace_size, voff, vlen)]

constantVectorRow(utf8, t, args, coff, loc, k) ==
    LET input == RowAt(args.input.col, 0)
        replace == RowAt(args.replace.col, k)
        input_size == getSliceSize(utf8, input)
        replace_size == getSliceSize(utf8, replace)
        off == IF ~t.offset_is_const THEN getInt(args.offset, k) ELSE loc.offset
        voff == IF ~t.offset_is_const THEN getValidOffset(off, input_size)
                ELSE loc.valid_offset
        perrow == ~t.has_three_args /\ ~t.length_is_const
        len == IF perrow THEN getInt(args.length, k) ELSE loc.length
        vlen == IF t.has_three_args THEN replace_size
                ELSE IF ~t.length_is_const THEN RowLength(len, replace_size)
                ELSE loc.valid_length
    IN [offset |-> off, length |-> len, valid_offset |-> voff, valid_length |-> vlen,
        bytes |-> RowBytes(utf8, input, replace, input_size, replace_size, voff, vlen)]

vectorVectorEnter(utf8, t, args, coff, clen) ==
    [offset |-> 0, length |-> 0, valid_offset |-> 0,
     valid_length |-> IF ~t.has_three_args /\ t.length_is_const THEN ToSize(clen) ELSE 0]

\* vectorVectorRow with the default removal length taken in bytes
vectorVectorRow_DefaultInBytes(utf8, t, args, coff, loc, k) ==
    LET input == RowAt(args.input.col, k)
        replace == RowAt(args.replace.col, k)
        input_size == getSliceSize(utf8, input)
        replace_size == getSliceSize(utf8, replace)
        off == IF t.offset_is_const THEN loc.offset ELSE getInt(args.offset, k)
        voff == IF t.offset_is_const THEN getValidOffset(coff, input_size)
                ELSE getValidOffset(off, input_size)
        perrow == ~t.has_three_args /\ ~t.length_is_const
        len == IF perrow THEN getInt(args.length, k) ELSE loc.length
        vlen == IF t.has_three_args THEN Len(replace)
                ELSE IF ~t.length_is_const THEN RowLength(len, replace_size)
                ELSE loc.valid_length
    IN [offset |-> off, length |-> len, valid_offset |-> voff, valid_length |-> vlen,
        bytes |-> RowBytes(utf8, input, replace, input_size, replace_size, voff, vlen)]

\* vectorVectorRow without the default removal length: valid_length keeps its
\* initial value when there is no length argument
vectorVectorRow_NoDefault(utf8, t, args, coff, loc, k) ==
    LET input == RowAt(args.input.col, k)
        replace == RowAt(args.replace.col, k)
        input_size == getSliceSize(utf8, input)
        replace_size == getSliceSize(utf8, replace)
        off == IF t.offset_is_const THEN loc.offset ELSE getInt(args.offset, k)
        voff == IF t.offset_is_const THEN getValidOffset(coff, input_size)
                ELSE getValidOffset(off, input_size)
        perrow == ~t.has_three_args /\ ~t.length_is_const
        len == IF perrow THEN getInt(args.length, k) ELSE loc.length
        vlen == IF perrow THEN RowLength(len, replace_size) ELSE loc.valid_length
    IN [offset |-> off, length |-> len, valid_offset |-> voff, valid_length |-> vlen,
        bytes |-> RowBytes(utf8, input, replace, input_size, replace_size, voff, vlen)]

vectorVectorRow(utf8, t, args, coff, loc, k) ==
    LET input == RowAt(args.input.col, k)
        replace == RowAt(args.replace.col, k)
        input_size == getSliceSize(utf8, input)
        replace_size == getSliceSize(utf8, replace)
        off == IF t.offset_is_const THEN loc.offset ELSE getInt(args.offset, k)
        voff == IF t.offset_is_const THEN getValidOffset(coff, input_size)
                ELSE getValidOffset(off, input_size)
        perrow == ~t.has_three_args /\ ~t.length_is_const
        len == IF perrow THEN getInt(args.length, k) ELSE loc.length
        vlen == IF t.has_three_args THEN replace_size
                ELSE IF ~t.length_is_const THEN RowLength(len, replace_size)
                ELSE loc.valid_length
    IN [offset |-> off, length |-> len, valid_offset |-> voff, valid_length |-> vlen,
        bytes |-> RowBytes(utf8, input, replace, input_size, replace_size, voff, vlen)]

\* res_data.resize(new_res_size); the three copies at res_offset; the
\* terminator. A byte that resize adds and no copy writes stays 256 (no byte).
WriteRow(data, cursor, bytes) ==
    LET new_res_size == Len(data) + Len(bytes) + 1
    IN [p \in 1..new_res_size |->
          IF p > cursor /\ p <= cursor + Len(bytes) THEN bytes[p - cursor]
          ELSE IF p = cursor + Len(bytes) + 1 THEN 0
          ELSE IF p <= Len(data) THEN data[p]
          ELSE 256]

---------------------------------------------------------------------------
\* Initial states: a call of executeImpl on a batch.

Start(utf8, n, args) ==
    /\ is_utf8 = utf8
    /\ input_rows_count = n
    /\ arguments = args
    /\ pc = "call"
    /\ tmpl = [has_three_args |-> FALSE, offset_is_const |-> FALSE,
               length_is_const |-> FALSE]
    /\ const_offset = 0 /\ const_length = 0
    /\ i = 0 /\ offset = 0 /\ length = 0
    /\ valid_offset = 0 /\ valid_length = 0
    /\ res_data = <<>> /\ res_offsets = <<>> /\ res_offset = 0

StringArg(is_const, strs) == [is_const |-> is_const, col |-> MakeColumn(strs)]
IntArg(is_const, ints) == [is_const |-> is_const, ints |-> ints]
LengthArg(shape, ints) ==
    [present |-> shape # "absent", is_const |-> shape = "const", ints |-> ints]

\* every sequence over S of length at most n
SeqsUpTo(S, n) == UNION {[1..m -> S] : m \in 0..n}

\* (1) batches of up to MaxRows rows with every combination of argument shapes
BatchInputs == {<<97, 195, 188, 98>>, <<98>>}
BatchReplaces == {<<88>>, <<195, 188, 89>>}
BatchOffsets == {0 - 2, 2}
BatchLengths == {0 - 1, 1}
LengthShapes == {"absent", "const", "vector"}

InitBatch ==
    \E utf8 \in BOOLEAN, n \in 0..MaxRows, ic \in BOOLEAN, rc \in BOOLEAN,
       oc \in BOOLEAN, ls \in LengthShapes :
      \E ins \in [1..(IF ic THEN 1 ELSE n) -> BatchInputs],
         reps \in [1..(IF rc THEN 1 ELSE n) -> BatchReplaces],
         offs \in [1..(IF oc THEN 1 ELSE n) -> BatchOffsets],
         lens \in [1..(IF ls = "absent" THEN 0 ELSE IF ls = "const" THEN 1 ELSE n)
                     -> BatchLengths] :
        Start(utf8, n, [input |-> StringArg(ic, ins), replace |-> StringArg(rc, reps),
                        offset |-> IntArg(oc, offs), length |-> LengthArg(ls, lens)])

\* the arguments of a one-row call with full (non-constant) columns, with or
\* without a length: what a call on scalars runs on
OneRowArgs(s, r, o, len_opt) ==
    [input |-> StringArg(FALSE, <<s>>), replace |-> StringArg(FALSE, <<r>>),
     offset |-> IntArg(FALSE, <<o>>),
     length |-> LengthArg(IF len_opt = <<>> THEN "absent" ELSE "vector", len_opt)]

OneRow(utf8, s, r, o, len_opt) == Start(utf8, 1, OneRowArgs(s, r, o, len_opt))

\* overlay(s, r, o[, length]) (utf8: overlayUTF8) on scalars: the row that
\* vectorVector<has_three_args, false, false> writes for the one-row batch
overlay(utf8, s, r, o, len_opt) ==
    LET args == OneRowArgs(s, r, o, len_opt)
        t == [has_three_args |-> len_opt = <<>>, offset_is_const |-> FALSE,
              length_is_const |-> FALSE]
        loc == vectorVectorEnter(utf8, t, args, 0 - 1, 0 - 1)
    IN vectorVectorRow(utf8, t, args, 0 - 1, loc, 0).bytes

\* (2) one row, every byte string of up to MaxInputBytes bytes as input
\*     and some inputs of distinct ASCII bytes
InputBytes == {97, 188, 195}
AsciiInputs == {<<97, 98>>, <<97, 98, 99>>, <<97, 98, 99, 100>>}
RowInputs == SeqsUpTo(InputBytes, MaxInputBytes) \cup AsciiInputs
RowReplaces == {<<>>, <<88>>, <<195, 188>>}
RowOffsets == {MinInt, MinInt + 1, MaxInt - 1, MaxInt}
                \cup ((0 - (MaxInputBytes + 2)) .. (MaxInputBytes + 3))
RowLengths == {<<>>, <<0 - 1>>, <<0>>, <<1>>, <<2>>, <<MaxInt>>}

InitRow ==
    \E utf8 \in BOOLEAN, s \in RowInputs, r \in RowReplaces, o \in RowOffsets,
       l \in RowLengths :
      OneRow(utf8, s, r, o, l)

\* (3) one row, every Int64 offset against every input size up to MaxInputBytes
InitOffsets ==
    \E utf8 \in BOOLEAN, m \in 0..MaxInputBytes, o \in MinInt..MaxInt,
       l \in {<<>>, <<1>>} :
      OneRow(utf8, [p \in 1..m |-> 97], <<88>>, o, l)

\* (4) one row under every combination of argument shapes
ShapeInputs == {<<>>, <<97, 98>>, <<195, 188>>, <<97, 195, 188, 98>>}
ShapeReplaces == {<<>>, <<88>>, <<195, 188, 89>>}
ShapeOffsets == {MinInt, 0 - 3, 0 - 1, 0, 1, 2, 4, MaxInt}
ShapeLengths == {MinInt, 0 - 1, 0, 1, 2, MaxInt}

InitShapes ==
    \E utf8 \in BOOLEAN, ic \in BOOLEAN, rc \in BOOLEAN, oc \in BOOLEAN,
       ls \in LengthShapes :
      \E s \in ShapeInputs, r \in ShapeReplaces, o \in ShapeOffsets,
         lens \in [1..(IF ls = "absent" THEN 0 ELSE 1) -> ShapeLengths] :
        Start(utf8, 1, [input |-> StringArg(ic, <<s>>), replace |-> StringArg(rc, <<r>>),
                        offset |-> IntArg(oc, <<o>>), length |-> LengthArg(ls, lens)])

\* (5) one row whose offset and length columns are of an unsigned type as wide
\*     as Int64 (UInt64), under every combination of constant and full columns
UnsignedValues == {1, Pow2(IntBits - 1) - 1, Pow2(IntBits - 1), Modulus - 1}

InitUnsigned ==
    \E utf8 \in BOOLEAN, oc \in BOOLEAN, ls \in LengthShapes :
      \E o \in UnsignedValues,
         lens \in [1..(IF ls = "absent" THEN 0 ELSE 1) -> UnsignedValues] :
        Start(utf8, 1, [input |-> StringArg(FALSE, <<<<97, 98, 99>>>>),
                        replace |-> StringArg(FALSE, <<<<88>>>>),
                        offset |-> IntArg(oc, <<o>>), length |-> LengthArg(ls, lens)])

\* (6) the documented calls
Hello == <<72, 101, 108, 108, 111, 44, 32, 87, 111, 114, 108, 100, 33>>
Scenarios ==
    { [utf8 |-> FALSE, s |-> Hello, r |-> <<97, 98, 99>>, o |-> 1, l |-> <<5>>],
      [utf8 |-> FALSE, s |-> Hello, r |-> <<97, 98, 99>>, o |-> 1, l |-> <<>>],
      [utf8 |-> FALSE, s |-> <<72, 101, 108, 108, 111>>, r |-> <<88, 89>>,
       o |-> 0 - 3, l |-> <<2>>],
      [utf8 |-> FALSE, s |-> <<72, 105>>, r |-> <<97, 98, 99, 100, 101, 102>>,
       o |-> 100, l |-> <<0>>],
      [utf8 |-> TRUE, s |-> <<77, 195, 188, 110, 99, 104, 101, 110>>, r |-> <<88>>,
       o |-> 2, l |-> <<1>>] }

InitScenario == \E c \in Scenarios : OneRow(c.utf8, c.s, c.r, c.o, c.l)

Init == InitBatch \/ InitRow \/ InitOffsets \/ InitShapes \/ InitUnsigned \/ InitScenario

---------------------------------------------------------------------------
\* Actions.

Locals(loc) ==
    /\ offset' = loc.offset
    /\ length' = loc.length
    /\ valid_offset' = loc.valid_offset
    /\ valid_length' = loc.valid_length

\* executeImpl up to the first loop iteration of the member function it calls
executeImpl ==
    /\ pc = "call"
    /\ IF input_rows_count = 0
       THEN /\ pc' = "done"
            /\ UNCHANGED <<tmpl, const_offset, const_length, i, offset, length,
                           valid_offset, valid_length, res_data, res_offsets,
                           res_offset>>
       ELSE LET has_three_args == ~arguments.length.present
                offset_is_const == arguments.offset.is_const
                length_is_const == arguments.length.present /\ arguments.length.is_const
                off == IF offset_is_const THEN getInt(arguments.offset, 0) ELSE 0 - 1
                len == IF length_is_const THEN getInt(arguments.length, 0) ELSE 0 - 1
                t0 == [has_three_args |-> has_three_args,
                       offset_is_const |-> offset_is_const,
                       length_is_const |-> length_is_const]
                t == Instantiate(t0, len)
                clen == IF t = t0 THEN len ELSE 0 - 1
                input_is_const == arguments.input.is_const
                replace_is_const == arguments.replace.is_const
            IN /\ tmpl' = t
               /\ const_offset' = off
               /\ const_length' = clen
               /\ i' = 0
               /\ res_data' = <<>>
               /\ res_offsets' = [k \in 1..input_rows_count |-> 0]
               /\ res_offset' = 0
               /\ IF input_is_const /\ replace_is_const
                  THEN /\ pc' = "constantConstant"
                       /\ Locals(constantConstantEnter(is_utf8, t, arguments, off, clen))
                  ELSE IF input_is_const /\ ~replace_is_const
                  THEN /\ pc' = "constantVector"
                       /\ Locals(constantVectorEnter(is_utf8, t, arguments, off, clen))
                  ELSE IF ~input_is_const /\ replace_is_const
                  THEN /\ pc' = "vectorConstant"
                       /\ Locals(vectorConstantEnter(is_utf8, t, arguments, off, clen))
                  ELSE /\ pc' = "vectorVector"
                       /\ Locals(vectorVectorEnter(is_utf8, t, arguments, off, clen))
    /\ UNCHANGED <<is_utf8, arguments, input_rows_count>>

\* one iteration of the row loop that records the offset of the row before
\* the terminator is counted
Iterate_OffsetBeforeTerminator(row) ==
    /\ Locals(row)
    /\ res_data' = WriteRow(res_data, res_offset, row.bytes)
    /\ res_offset' = res_offset + Len(row.bytes) + 1
    /\ res_offsets' = [res_offsets EXCEPT ![i + 1] = res_offset + Len(row.bytes)]
    /\ i' = i + 1
    /\ pc' = IF i + 1 < input_rows_count THEN pc ELSE "done"
    /\ UNCHANGED <<is_utf8, arguments, input_rows_count, tmpl, const_offset, const_length>>

\* one iteration of the row loop; the function returns after the last row
Iterate(row) ==
    /\ Locals(row)
    /\ res_data' = WriteRow(res_data, res_offset, row.bytes)
    /\ res_offset' = res_offset + Len(row.bytes) + 1
    /\ res_offsets' = [res_offsets EXCEPT ![i + 1] = res_offset + Len(row.bytes) + 1]
    /\ i' = i + 1
    /\ pc' = IF i + 1 < input_rows_count THEN pc ELSE "done"
    /\ UNCHANGED <<is_utf8, arguments, input_rows_count, tmpl, const_offset, const_length>>

CurrentLocals ==
    [offset |-> offset, length |-> length, valid_offset |-> valid_offset,
     valid_length |-> valid_length]

constantConstant ==
    /\ pc = "constantConstant"
    /\ Iterate(constantConstantRow(is_utf8, tmpl, arguments, const_offset, CurrentLocals, i))

constantVector ==
    /\ pc = "constantVector"
    /\ Iterate(constantVectorRow(is_utf8, tmpl, arguments, const_offset, CurrentLocals, i))

vectorConstant ==
    /\ pc = "vectorConstant"
    /\ Iterate(vectorConstantRow(is_utf8, tmpl, arguments, const_offset, CurrentLocals, i))

vectorVector ==
    /\ pc = "vectorVector"
    /\ Iterate(vectorVectorRow(is_utf8, tmpl, arguments, const_offset, CurrentLocals, i))

Next == executeImpl \/ constantConstant \/ constantVector \/ vectorConstant \/ vectorVector

Spec == Init /\ [][Next]_vars

---------------------------------------------------------------------------
\* What the properties read.

\* rows the loop has finished
Processed == IF pc = "call" THEN 0 ELSE i

\* the four argument values of row k
ArgInput(k) == RowAt(arguments.input.col, IF arguments.input.is_const THEN 0 ELSE k)
ArgReplace(k) == RowAt(arguments.replace.col, IF arguments.replace.is_const THEN 0 ELSE k)
ArgOffset(k) == getInt(arguments.offset, IF arguments.offset.is_const THEN 0 ELSE k)
ArgLength(k) ==
    IF ~arguments.length.present THEN <<>>
    ELSE <<getInt(arguments.length, IF arguments.length.is_const THEN 0 ELSE k)>>

\* row k of the result, without its terminator
ResRow(k) ==
    SubSeq(res_data, OffsetAt(res_offsets, k - 1) + 1, OffsetAt(res_offsets, k) - 1)

\* the length of s in the mode's unit: bytes, or code points (the bytes that
\* start one)
Units(utf8, s) ==
    IF utf8 THEN Cardinality({p \in 1..Len(s) : s[p] < 128 \/ s[p] >= 192}) ELSE Len(s)

\* the pieces of s: s[from, to) with 0-based byte positions
Slice(s, from, to) == SubSeq(s, from + 1, to)

---------------------------------------------------------------------------
\* C1: byte mode. With the resolved prefix length p in [0, len(s)] and the
\* resolved removal length L >= 0 of a row, the row written is
\* s[0,p) ++ r ++ s[p+L, len(s)) when p+L <= len(s) and s[0,p) ++ r when
\* p+L > len(s), followed by exactly one zero byte; r is copied in full.
C1_ByteSplice ==
    (~is_utf8 /\ Processed > 0) =>
        LET k == i - 1
            s == ArgInput(k)
            r == ArgReplace(k)
            p == valid_offset
            L == valid_length
            out == Slice(s, 0, p) \o r
                     \o (IF p + L <= Len(s) THEN Slice(s, p + L, Len(s)) ELSE <<>>)
        IN /\ p \in 0..Len(s)
           /\ L >= 0
           /\ ResRow(k) = out
           /\ res_offsets[k + 1] = OffsetAt(res_offsets, k - 1) + Len(out) + 1
           /\ res_data[res_offsets[k + 1]] = 0
           /\ Len(res_data) = res_offsets[k + 1]

\* a constantConstant batch in byte mode whose last row keeps a prefix and a
\* suffix around the replacement
C1_Witness ==
    /\ ~is_utf8 /\ pc = "done" /\ i = 2
    /\ arguments.input.is_const /\ arguments.replace.is_const
    /\ valid_offset > 0
    /\ valid_length > 0
    /\ valid_offset + valid_length < Len(ArgInput(1))
    /\ Len(ResRow(1)) = Len(ArgInput(1)) - valid_length + Len(ArgReplace(1))

\* C2: getValidOffset(offset, n) is in [0, n] and is offset-1 when
\* 1 <= offset <= n+1, n when offset > n+1, n+offset when -n <= offset <= 0
\* (offset 0 gives n), and 0 when offset < -n, for every Int64 offset.
C2_ValidOffset ==
    Processed > 0 =>
        LET k == i - 1
            n == Units(is_utf8, ArgInput(k))
            o == ArgOffset(k)
        IN /\ valid_offset \in 0..n
           /\ (1 <= o /\ o <= n + 1) => valid_offset = o - 1
           /\ o > n + 1 => valid_offset = n
           /\ (0 - n <= o /\ o <= 0) => valid_offset = n + o
           /\ o < 0 - n => valid_offset = 0

\* the minimum Int64 as the offset of a non-empty input
C2_Witness ==
    /\ pc = "done" /\ i = 1
    /\ ArgOffset(0) = MinInt
    /\ Units(is_utf8, ArgInput(0)) = MaxInputBytes
    /\ valid_offset = 0

LeadLength(b) ==
    IF b < 128 THEN 1
    ELSE IF b >= 194 /\ b <= 223 THEN 2
    ELSE IF b >= 224 /\ b <= 239 THEN 3
    ELSE IF b >= 240 /\ b <= 244 THEN 4
    ELSE 0

RECURSIVE IsValidUTF8(_)
IsValidUTF8(s) ==
    \/ s = <<>>
    \/ LET m == LeadLength(s[1])
       IN /\ m > 0 /\ m <= Len(s)
          /\ \A q \in 2..m : s[q] >= 128 /\ s[q] <= 191
          /\ IsValidUTF8(SubSeq(s, m + 1, Len(s)))

\* the code points of a well-formed s, each as its bytes
RECURSIVE CodePoints(_)
CodePoints(s) ==
    IF s = <<>> THEN <<>>
    ELSE <<SubSeq(s, 1, LeadLength(s[1]))>>
           \o CodePoints(SubSeq(s, LeadLength(s[1]) + 1, Len(s)))

RECURSIVE Flatten(_)
Flatten(ss) == IF ss = <<>> THEN <<>> ELSE ss[1] \o Flatten(Tail(ss))

\* C4: code-point mode on well-formed UTF-8. With p, L and the suffix length
\* counted in code points, the row written is the bytes of the first p code
\* points ++ all bytes of r ++ the bytes of the last suffix_length code
\* points, then the terminator; no code point is split and the prefix and
\* suffix bytes together do not exceed the input's bytes.
C4_CodePointSplice ==
    (is_utf8 /\ Processed > 0 /\ IsValidUTF8(ArgInput(i - 1))) =>
        LET k == i - 1
            cps == CodePoints(ArgInput(k))
            r == ArgReplace(k)
            n == Len(cps)
            p == valid_offset
            L == valid_length
            suffix_length == IF p + L > n THEN 0 ELSE n - p - L
            prefix == Flatten(SubSeq(cps, 1, p))
            suffix == Flatten(SubSeq(cps, n - suffix_length + 1, n))
        IN /\ p \in 0..n
           /\ ResRow(k) = prefix \o r \o suffix
           /\ Len(prefix) + Len(suffix) <= Len(ArgInput(k))
           /\ res_data[res_offsets[k + 1]] = 0
           /\ Len(res_data) = res_offsets[k + 1]

\* overlayUTF8("München", "X", 2, 1) = "MXnchen"
C4_Witness ==
    /\ is_utf8 /\ pc = "done" /\ i = 1
    /\ ArgInput(0) = <<77, 195, 188, 110, 99, 104, 101, 110>>
    /\ ArgReplace(0) = <<88>> /\ ArgOffset(0) = 2 /\ ArgLength(0) = <<1>>
    /\ ResRow(0) = <<77, 88, 110, 99, 104, 101, 110>>

\* C5: whichever member function and template instantiation runs the batch,
\* every row written is the row of the call on that row's four values alone:
\* a constant argument v gives what a column of v's gives.
C5_PathTransparency ==
    \A k \in 0..(Processed - 1) :
        ResRow(k) = overlay(is_utf8, ArgInput(k), ArgReplace(k), ArgOffset(k), ArgLength(k))

\* a finished vectorConstant batch with a constant offset and a constant
\* length whose two inputs resolve the offset differently
C5_Witness ==
    /\ pc = "done" /\ i = 2
    /\ ~arguments.input.is_const /\ arguments.replace.is_const
    /\ arguments.offset.is_const /\ arguments.length.present /\ arguments.length.is_const
    /\ Len(ArgInput(0)) # Len(ArgInput(1))
    /\ ArgOffset(0) = 2
    /\ ResRow(0) # ResRow(1)

C7_NegativeOffset ==
    \A k \in 0..(Processed - 1) :
        LET s == ArgInput(k)
            n == Units(is_utf8, s)
            o == ArgOffset(k)
        IN (o <= 0 /\ 0 - o <= n) =>
              /\ ResRow(k) = overlay(is_utf8, s, ArgReplace(k), n + o + 1, ArgLength(k))
              /\ (o = 0 /\ (~is_utf8 \/ IsValidUTF8(s))) => ResRow(k) = s \o ArgReplace(k)

\* overlay("Hello", "XY", -3, 2) = "HeXYo"
C7_Witness ==
    /\ ~is_utf8 /\ pc = "done" /\ i = 1
    /\ ArgInput(0) = <<72, 101, 108, 108, 111>> /\ ArgReplace(0) = <<88, 89>>
    /\ ArgOffset(0) = 0 - 3 /\ ArgLength(0) = <<2>>
    /\ ResRow(0) = <<72, 101, 88, 89, 111>>

\* C8: an offset o > length(s)+1 gives the row of the offset length(s)+1:
\* the whole input, then the replacement.
C8_Clamp ==
    \A k \in 0..(Processed - 1) :
        LET s == ArgInput(k)
            n == Units(is_utf8, s)
        IN ArgOffset(k) > n + 1 =>
              /\ ResRow(k) = overlay(is_utf8, s, ArgReplace(k), n + 1, ArgLength(k))
              /\ (~is_utf8 \/ IsValidUTF8(s)) => ResRow(k) = s \o ArgReplace(k)

\* overlay("Hi", "abcdef", 100, 0) = "Hiabcdef"
C8_Witness ==
    /\ ~is_utf8 /\ pc = "done" /\ i = 1
    /\ ArgInput(0) = <<72, 105>> /\ ArgOffset(0) = 100 /\ ArgLength(0) = <<0>>
    /\ ResRow(0) = <<72, 105, 97, 98, 99, 100, 101, 102>>

IsAscii(s) == \A p \in 1..Len(s) : s[p] < 128

HelloCallDone ==
    /\ ~is_utf8 /\ pc = "done" /\ input_rows_count = 1
    /\ ArgInput(0) = Hello /\ ArgReplace(0) = <<97, 98, 99>>
    /\ ArgOffset(0) = 1 /\ ArgLength(0) = <<>>

\* C10 as claimed: overlay("Hello, World!", "abc", 1) = "abcello, World!"
C10_AsClaimed ==
    HelloCallDone =>
        ResRow(0) = <<97, 98, 99, 101, 108, 108, 111, 44, 32, 87, 111, 114, 108, 100, 33>>

\* C10: overlay("Hello, World!", "abc", 1) = "abclo, World!": the length
\* defaults to 3, the replacement's length, and "Hel" is removed.
C10_HelloDefaultLength ==
    HelloCallDone =>
        /\ valid_length = 3
        /\ ResRow(0) = <<97, 98, 99, 108, 111, 44, 32, 87, 111, 114, 108, 100, 33>>

\* the call has returned and its row is written
C10_Witness ==
    /\ HelloCallDone
    /\ i = 1
    /\ res_offsets = <<14>>
    /\ res_data[14] = 0

\* the values of the source columns for row k, before getInt
SourceOffset(k) == arguments.offset.ints[IF arguments.offset.is_const THEN 1 ELSE k + 1]
SourceLength(k) == arguments.length.ints[IF arguments.length.is_const THEN 1 ELSE k + 1]

\* C11 as claimed: the offset and the length read for a row equal the source
\* values numerically, also for unsigned values of 2^63 and more, which so
\* resolve as a large positive offset and a non-negative length.
C11_AsClaimed ==
    \A k \in 0..(Processed - 1) :
        /\ ArgOffset(k) = SourceOffset(k)
        /\ arguments.length.present => ArgLength(k) = <<SourceLength(k)>>
        /\ SourceOffset(k) > 0 => ArgOffset(k) > 0
        /\ (arguments.length.present /\ SourceLength(k) >= 0) => ArgLength(k)[1] >= 0

\* C12: in either mode, with offset 1 and length = length(s) in the mode's
\* unit the row is the replacement r exactly, for every s and r, empty ones
\* included.
C12_FullOverlay ==
    \A k \in 0..(Processed - 1) :
        (/\ ArgOffset(k) = 1
         /\ ArgLength(k) = <<Units(is_utf8, ArgInput(k))>>) =>
            ResRow(k) = ArgReplace(k)

\* overlayUTF8 of a two-code-point, three-byte input with offset 1, length 2
C12_Witness ==
    /\ is_utf8 /\ pc = "done" /\ i = 1
    /\ ArgInput(0) = <<97, 195, 188>> /\ ArgReplace(0) = <<195, 188>>
    /\ ArgOffset(0) = 1 /\ ArgLength(0) = <<2>>
    /\ ResRow(0) = <<195, 188>>

\* a call with a length argument that is a constant column of a negative value
NegativeConstLength ==
    /\ arguments.length.present
    /\ arguments.length.is_const
    /\ getInt(arguments.length, 0) < 0

\* C13: when the length argument is a constant negative value, every row, in
\* each of the four member functions, is the row of the three-argument call
\* on the same input, replacement and offset; the batch runs in the
\* <true, offset_is_const, false> instantiation with const_length -1 from its
\* first row to its last; and the constant-length branch, whose first
\* statement is assert(const_length >= 0), is never entered with a negative
\* const_length.
C13_NegativeConstLength ==
    (pc # "call" /\ input_rows_count > 0) =>
        /\ NegativeConstLength =>
              /\ tmpl = [has_three_args |-> TRUE,
                         offset_is_const |-> arguments.offset.is_const,
                         length_is_const |-> FALSE]
              /\ const_length = 0 - 1
              /\ \A k \in 0..(Processed - 1) :
                    ResRow(k) = overlay(is_utf8, ArgInput(k), ArgReplace(k),
                                        ArgOffset(k), <<>>)
        /\ (~tmpl.has_three_args /\ tmpl.length_is_const) => const_length >= 0

\* a two-row batch, constant input and a replacement per row, constant
\* length -1: both rows written by the three-argument instantiation
C13_Witness ==
    /\ pc = "done" /\ i = 2
    /\ NegativeConstLength
    /\ arguments.input.is_const /\ ~arguments.replace.is_const
    /\ tmpl.has_three_args
    /\ ArgReplace(0) # ArgReplace(1)
    /\ ResRow(1) = overlay(is_utf8, ArgInput(1), ArgReplace(1), ArgOffset(1), <<>>)
    /\ ResRow(1) # overlay(is_utf8, ArgInput(1), ArgReplace(1), ArgOffset(1), <<1>>)

\* the spliced byte length of row k: the length of overlay on the row's values
SplicedLength(k) ==
    Len(overlay(is_utf8, ArgInput(k), ArgReplace(k), ArgOffset(k), ArgLength(k)))

\* the spliced lengths of rows 0..n-1 plus one terminator byte per row
RECURSIVE SplicedTotal(_)
SplicedTotal(n) == IF n = 0 THEN 0 ELSE SplicedTotal(n - 1) + SplicedLength(n - 1) + 1

\* the state of the output buffer after rows 0..Processed-1
OutputBufferInvariant ==
    pc # "call" =>
        /\ res_offset = Len(res_data)
        /\ Len(res_offsets) = input_rows_count
        /\ \A k \in 0..(Processed - 1) :
              /\ res_offsets[k + 1] > OffsetAt(res_offsets, k - 1)
              /\ res_offsets[k + 1] - OffsetAt(res_offsets, k - 1) = SplicedLength(k) + 1
              /\ res_data[res_offsets[k + 1]] = 0
              /\ res_offsets[k + 1] = SplicedTotal(k + 1)
        /\ Len(res_data) = SplicedTotal(Processed)
        /\ pc = "done" => /\ Processed = input_rows_count
                          /\ Len(res_data) = SplicedTotal(input_rows_count)

\* a step of the loop keeps what is in the buffer and in the offsets of the
\* rows already written, and the buffer does not shrink
BufferGrows ==
    pc # "call" =>
        /\ Len(res_data') >= Len(res_data)
        /\ SubSeq(res_data', 1, Len(res_data)) = res_data
        /\ i' = i + 1
        /\ \A k \in 1..i : res_offsets'[k] = res_offsets[k]

\* C14: after rows 0..k-1 the cursor res_offset is res_data.size(); the
\* offsets of the rows written are strictly increasing, each one the previous
\* one plus the row's spliced byte length plus 1; the byte before each offset
\* is the zero terminator; the buffer never shrinks; after the last row its
\* size is the sum of the spliced lengths plus one byte per row, and there is
\* one entry per input row, in row order.
C14_OutputBuffer == [](OutputBufferInvariant) /\ [][BufferGrows]_vars

\* a finished two-row batch whose rows have different spliced lengths
C14_Witness ==
    /\ pc = "done" /\ i = 2 /\ input_rows_count = 2
    /\ SplicedLength(0) # SplicedLength(1)
    /\ SplicedLength(0) > 0
    /\ res_offsets = <<SplicedLength(0) + 1, SplicedLength(0) + SplicedLength(1) + 2>>
    /\ Len(res_data) = res_offsets[2]
    /\ res_data[res_offsets[1]] = 0 /\ res_data[res_offsets[2]] = 0

\* the longest UTF-8 sequence seqLength announces
MaxSeqLength == 4

\* C15: code-point mode on any input bytes, malformed ones included. For the
\* row just written: the forward scan ends at most one sequence past the
\* input; the prefix byte count is in [0, input bytes], and is the full
\* input byte length when the scan passed the end; the suffix start is in
\* [input begin, input end]; every byte copied from the input is a byte of
\* the input; the row holds prefix_bytes + replacement bytes + suffix_bytes
\* bytes and its terminator, which is what the resize reserved.
C15_MalformedSafe ==
    (is_utf8 /\ Processed > 0) =>
        LET k == i - 1
            s == ArgInput(k)
            r == ArgReplace(k)
            input_bytes == Len(s)
            input_size == getSliceSize(TRUE, s)
            prefix_size == valid_offset
            suffix_size == SuffixSize(prefix_size, valid_length, input_size)
            prefix_end == skipCodePointsForward(s, 0, prefix_size)
            prefix_bytes == IF prefix_end > input_bytes THEN input_bytes ELSE prefix_end
            suffix_begin == skipCodePointsBackward(s, input_bytes, suffix_size)
            suffix_bytes == input_bytes - suffix_begin
        IN /\ prefix_end \in 0..(input_bytes + MaxSeqLength - 1)
           /\ prefix_bytes \in 0..input_bytes
           /\ prefix_end > input_bytes => prefix_bytes = input_bytes
           /\ suffix_begin \in 0..input_bytes
           /\ suffix_bytes \in 0..input_bytes
           /\ ResRow(k) = Slice(s, 0, prefix_bytes) \o r \o Slice(s, suffix_begin, input_bytes)
           /\ \A p \in 1..Len(ResRow(k)) : ResRow(k)[p] \in 0..255
           /\ res_offsets[k + 1] - OffsetAt(res_offsets, k - 1)
                = prefix_bytes + Len(r) + suffix_bytes + 1
           /\ Len(res_data) = res_offsets[k + 1]

\* overlayUTF8 on 'a' followed by a lead byte with no continuation, offset 3:
\* the forward scan of two code points ends one byte past the input and the
\* prefix is clamped to the two input bytes
C15_Witness ==
    /\ is_utf8 /\ pc = "done" /\ i = 1
    /\ ArgInput(0) = <<97, 195>> /\ ArgReplace(0) = <<88>>
    /\ ArgOffset(0) = 3
    /\ valid_offset = 2
    /\ skipCodePointsForward(ArgInput(0), 0, valid_offset) = 3
    /\ ResRow(0) = <<97, 195, 88>>

\* the member function executeImpl calls for the arguments: its statements
\* before the loop, and its loop body for row k entered with the locals loc
PathEnter(utf8, t, args, coff, clen) ==
    IF args.input.is_const /\ args.replace.is_const
    THEN constantConstantEnter(utf8, t, args, coff, clen)
    ELSE IF args.input.is_const /\ ~args.replace.is_const
    THEN constantVectorEnter(utf8, t, args, coff, clen)
    ELSE IF ~args.input.is_const /\ args.replace.is_const
    THEN vectorConstantEnter(utf8, t, args, coff, clen)
    ELSE vectorVectorEnter(utf8, t, args, coff, clen)

PathRow(utf8, t, args, coff, loc, k) ==
    IF args.input.is_const /\ args.replace.is_const
    THEN constantConstantRow(utf8, t, args, coff, loc, k)
    ELSE IF args.input.is_const /\ ~args.replace.is_const
    THEN constantVectorRow(utf8, t, args, coff, loc, k)
    ELSE IF ~args.input.is_const /\ args.replace.is_const
    THEN vectorConstantRow(utf8, t, args, coff, loc, k)
    ELSE vectorVectorRow(utf8, t, args, coff, loc, k)

\* the batch that holds row k alone: the same constant columns, and of each
\* full column only its entry for row k
OnlyRow(args, k) ==
    [input |-> IF args.input.is_const THEN args.input
               ELSE StringArg(FALSE, <<RowAt(args.input.col, k)>>),
     replace |-> IF args.replace.is_const THEN args.replace
                 ELSE StringArg(FALSE, <<RowAt(args.replace.col, k)>>),
     offset |-> IF args.offset.is_const THEN args.offset
                ELSE IntArg(FALSE, <<args.offset.ints[k + 1]>>),
     length |-> IF ~args.length.present \/ args.length.is_const THEN args.length
                ELSE LengthArg("vector", <<args.length.ints[k + 1]>>)]

\* the four values of rows j and k are the same
SameValues(j, k) ==
    /\ ArgInput(j) = ArgInput(k)
    /\ ArgReplace(j) = ArgReplace(k)
    /\ ArgOffset(j) = ArgOffset(k)
    /\ ArgLength(j) = ArgLength(k)

\* C16: row independence, in every member function and instantiation. Row k
\* of the result is what the loop body writes for row k when it is entered
\* with the locals as they are before the first row, so nothing an earlier
\* row left in offset, length, valid_offset or valid_length reaches it; it is
\* the row the same member function writes for the batch that holds row k
\* alone; and two rows of a batch with the same four values are the same,
\* wherever they stand.
C16_RowIndependence ==
    (pc # "call" /\ input_rows_count > 0) =>
        LET fresh == PathEnter(is_utf8, tmpl, arguments, const_offset, const_length)
        IN \A k \in 0..(Processed - 1) :
              /\ ResRow(k) = PathRow(is_utf8, tmpl, arguments, const_offset, fresh, k).bytes
              /\ LET alone == OnlyRow(arguments, k)
                     enter == PathEnter(is_utf8, tmpl, alone, const_offset, const_length)
                 IN ResRow(k) = PathRow(is_utf8, tmpl, alone, const_offset, enter, 0).bytes
              /\ \A j \in 0..(Processed - 1) : SameValues(j, k) => ResRow(j) = ResRow(k)

\* a finished constantVector batch with a length per row: row 0 resolved
\* length 1, row 1 has length -1 and resolved the size of its replacement
C16_Witness ==
    /\ pc = "done" /\ i = 2
    /\ arguments.input.is_const /\ ~arguments.replace.is_const
    /\ arguments.length.present /\ ~arguments.length.is_const
    /\ ArgLength(0) = <<1>> /\ ArgLength(1) = <<0 - 1>>
    /\ valid_length = getSliceSize(is_utf8, ArgReplace(1))
    /\ valid_length # 1
    /\ ResRow(1) = PathRow(is_utf8, tmpl, arguments, const_offset,
                           PathEnter(is_utf8, tmpl, arguments, const_offset, const_length),
                           1).bytes
    /\ ResRow(1) # overlay(is_utf8, ArgInput(1), ArgReplace(1), ArgOffset(1), <<1>>)

====
